---------------------------- MODULE Spec2Model ----------------------------
(***************************************************************************)
(* Model of api_server.py: the Flask relay with its in-memory message      *)
(* history (messages_store), the WhatsApp / Instagram webhook handlers,    *)
(* the send handlers, the Vapi tool-call handler and the read-only routes. *)
(*                                                                         *)
(* A JSON object is a TLA+ record; a missing key is a missing field.       *)
(* Python's None is the distinguished string None.  Each handler is an     *)
(* operator from (environment, request, remote outcome) to the handler's   *)
(* outcome: the status and body it answers, the records it inserts into    *)
(* messages_store (in insertion order) and the outbound calls it makes.    *)
(***************************************************************************)
EXTENDS Integers, Sequences, FiniteSets, TLC

VARIABLES env, messages_store, last, inflight

vars == <<env, messages_store, last, inflight>>

-----------------------------------------------------------------------------
(* Python values *)

None == "<None>"

\* bool(x) for the strings and None the handlers test with `not x`
Truthy(x) == x \notin {None, ""}

\* `k in d`
Has(d, k) == k \in DOMAIN d

\* d.get(k, default)
Get(d, k, default) == IF k \in DOMAIN d THEN d[k] ELSE default

\* list.insert(0, x)
Insert0Append(l, x) == Append(l, x)

Insert0Overwrite(l, x) == <<x>> \o Tail(l)

Insert0(l, x) == <<x>> \o l

\* the inserts of one handler, applied in the order the handler makes them
RECURSIVE InsertAll(_, _)
InsertAll(l, xs) ==
    IF xs = <<>> THEN l ELSE InsertAll(Insert0(l, Head(xs)), Tail(xs))

-----------------------------------------------------------------------------
(* Process environment: os.getenv *)

EnvKeys ==
    { "VAPI_API_KEY", "VAPI_ASSISTANT_ID", "VAPI_PHONE_NUMBER",
      "VITE_WHATSAPP_ACCESS_TOKEN", "VITE_WHATSAPP_PHONE_ID",
      "WHATSAPP_VERIFY_TOKEN", "META_APP_SECRET", "INSTAGRAM_VERIFY_TOKEN",
      "VITE_INSTAGRAM_ACCESS_TOKEN", "VITE_INSTAGRAM_ACCOUNT_ID",
      "VITE_META_ACCESS_TOKEN", "VITE_META_AD_ACCOUNT_ID" }

\* every value set
FullEnv ==
    [k \in EnvKeys |->
        CASE k = "WHATSAPP_VERIFY_TOKEN" -> "wa_tok"
          [] k = "INSTAGRAM_VERIFY_TOKEN" -> "ig_tok"
          [] k = "META_APP_SECRET" -> "app_secret"
          [] k = "VITE_META_AD_ACCOUNT_ID" -> "act_1"
          [] OTHER -> "set"]

\* no value set
EmptyEnv == [k \in EnvKeys |-> None]

\* the environment with the given values unset
Without(keys) == [k \in EnvKeys |-> IF k \in keys THEN None ELSE FullEnv[k]]

\* the environments explored: for every route, all of its values set, each
\* one of them unset alone, and all of them unset
EnvSet ==
    { FullEnv, EmptyEnv,
      Without({"VAPI_API_KEY", "VITE_WHATSAPP_ACCESS_TOKEN",
               "VITE_INSTAGRAM_ACCESS_TOKEN", "VITE_META_ACCESS_TOKEN",
               "META_APP_SECRET", "WHATSAPP_VERIFY_TOKEN"}),
      Without({"VAPI_ASSISTANT_ID", "VITE_WHATSAPP_PHONE_ID",
               "VITE_INSTAGRAM_ACCOUNT_ID", "VITE_META_AD_ACCOUNT_ID",
               "INSTAGRAM_VERIFY_TOKEN"}),
      Without({"VAPI_PHONE_NUMBER"}) }

getenv(e, k) == e[k]

getenv_default(e, k, default) == IF e[k] = None THEN default ELSE e[k]

-----------------------------------------------------------------------------
(* What a handler does *)

Out(status, body, inserts, calls) ==
    [status |-> status, body |-> body, inserts |-> inserts, calls |-> calls,
     events |-> <<>>, fault |-> FALSE]

\* Flask's make_response on a view's return value: a body of None is no
\* valid response, the TypeError is raised outside the view function and
\* Flask answers its own 500.
make_response(rv) ==
    IF rv.body = None
    THEN [rv EXCEPT !.status = 500, !.body = "Internal Server Error",
                    !.fault = TRUE]
    ELSE rv

\* the remote provider's answer to one outbound HTTP call
Answered(code, isJson) == [kind |-> "status", code |-> code, json |-> isJson]

Raised == [kind |-> "raise", code |-> 0, json |-> FALSE]

ProviderOutcomes ==
    { Answered(200, TRUE), Answered(201, TRUE), Answered(200, FALSE),
      Answered(400, TRUE), Answered(401, FALSE), Raised }

-----------------------------------------------------------------------------
(* messages_store *)

StartupTimes == {"09:00 AM"}

InitialStore(t) ==
    << [id |-> "init_msg_1", platform |-> "whatsapp",
        sender |-> "New Patient (Sample)", from |-> "+15550009999",
        text |-> "Hello! Is this the NovaSync Dental line? (Test Message sent to 555-147-9581)",
        time |-> t, avatar |-> "", unread |-> TRUE],
       [id |-> "init_msg_ig_1", platform |-> "instagram",
        sender |-> "instagram_user_123", from |-> "ig_123456789",
        text |-> "Hi, saw your ad on Instagram! DMing you here.",
        time |-> t, avatar |-> "", unread |-> TRUE] >>

\* most records the store may hold in the model
MaxStore == 4

-----------------------------------------------------------------------------
(* GET /api/whatsapp/webhook and GET /api/instagram/webhook *)

Modes == {None, "subscribe", "unsubscribe"}

Tokens == {None, "", "wa_tok", "ig_tok", "novasync_secret", "nova_sync_secret"}

Challenges == {None, "1158201444"}

VerifyArgs == [mode : Modes, token : Tokens, challenge : Challenges]

whatsapp_verify_token(e) ==
    getenv_default(e, "WHATSAPP_VERIFY_TOKEN", "novasync_secret")

instagram_verify_token(e) ==
    getenv_default(e, "INSTAGRAM_VERIFY_TOKEN",
                   getenv_default(e, "WHATSAPP_VERIFY_TOKEN", "nova_sync_secret"))

\* the handshake both GET handlers share
verify_handshake(args, verify_token) ==
    IF Truthy(args.mode) /\ Truthy(args.token)
    THEN IF args.mode = "subscribe" /\ args.token = verify_token
         THEN Out(200, args.challenge, <<>>, <<>>)
         ELSE Out(403, "Forbidden", <<>>, <<>>)
    ELSE Out(400, "Bad Request", <<>>, <<>>)

whatsapp_webhook_get(e, args) ==
    make_response(verify_handshake(args, whatsapp_verify_token(e)))

verify_instagram_webhook(e, args) ==
    make_response(verify_handshake(args, instagram_verify_token(e)))

-----------------------------------------------------------------------------
(* Webhook payloads (request bodies of the two POST webhook routes) *)

EmptyDict == <<>>

WaText(id, from, body) ==
    [id |-> id, from |-> from, timestamp |-> "1700000000", type |-> "text",
     text |-> [body |-> body]]

WaImage(id, from) ==
    [id |-> id, from |-> from, timestamp |-> "1700000000", type |-> "image"]

NamedContact == <<[wa_id |-> "15551230001", profile |-> [name |-> "Alice"]]>>

BareContact == <<[wa_id |-> "15551230001"]>>

WaValue(contacts, messages) ==
    [messaging_product |-> "whatsapp", contacts |-> contacts,
     messages |-> messages]

WaValueNoContacts(messages) ==
    [messaging_product |-> "whatsapp", messages |-> messages]

WaStatusValue == [messaging_product |-> "whatsapp", statuses |-> <<"read">>]

Change(value) == [field |-> "messages", value |-> value]

ChangesEntry(changes) == [id |-> "entry1", changes |-> changes]

IgText(mid, from, text) ==
    [sender |-> [id |-> from], recipient |-> [id |-> "ig_page"],
     message |-> [mid |-> mid, text |-> text]]

IgAttachment(mid, from) ==
    [sender |-> [id |-> from], recipient |-> [id |-> "ig_page"],
     message |-> [mid |-> mid, attachments |-> <<"image">>]]

IgRead(from) ==
    [sender |-> [id |-> from], recipient |-> [id |-> "ig_page"],
     read |-> [mid |-> "mid0"]]

MessagingEntry(events) == [id |-> "entry1", messaging |-> events]

BothEntry(events, changes) ==
    [id |-> "entry1", messaging |-> events, changes |-> changes]

Payload(object, entry) == [object |-> object, entry |-> entry]

M1 == WaText("wamid.1", "15551230001", "hi")

M2 == WaText("wamid.2", "15551230001", "are you open?")

E1 == IgText("mid.1", "ig_42", "hello")

E2 == IgText("mid.2", "ig_42", "price?")

WaEntries ==
    { <<ChangesEntry(<<Change(WaValue(NamedContact, <<M1>>))>>)>>,
      <<ChangesEntry(<<Change(WaValueNoContacts(<<M1>>))>>)>>,
      <<ChangesEntry(<<Change(WaValue(BareContact, <<M1>>))>>)>>,
      <<ChangesEntry(<<Change(WaValue(<<>>, <<M1>>))>>)>>,
      <<ChangesEntry(<<Change(WaValue(NamedContact, <<M1>>)),
                       Change(WaValue(<<>>, <<M2>>))>>)>>,
      <<ChangesEntry(<<Change(WaValue(NamedContact, <<M1, M2>>))>>)>>,
      <<ChangesEntry(<<Change(WaValueNoContacts(<<M1>>))>>),
        ChangesEntry(<<Change(WaValue(NamedContact, <<M2>>))>>)>>,
      <<ChangesEntry(<<Change(WaValue(NamedContact,
                                      <<WaImage("wamid.3", "15551230001")>>))>>)>>,
      <<ChangesEntry(<<Change(WaStatusValue)>>)>>,
      <<>> }

IgEntries ==
    { <<MessagingEntry(<<E1>>)>>,
      <<MessagingEntry(<<E1, E2>>)>>,
      <<MessagingEntry(<<IgAttachment("mid.3", "ig_42")>>)>>,
      <<MessagingEntry(<<IgRead("ig_42"), E1>>)>>,
      <<ChangesEntry(<<Change([messages |-> <<E1>>])>>)>>,
      <<ChangesEntry(<<Change([messages |-> <<IgAttachment("mid.3", "ig_42")>>])>>)>>,
      <<BothEntry(<<E1>>, <<Change([messages |-> <<E2>>])>>)>>,
      <<MessagingEntry(<<E1>>),
        ChangesEntry(<<Change([messages |-> <<E2>>])>>)>> }

\* the JSON bodies delivered to the webhooks
Payloads ==
    { Payload("whatsapp_business_account", en) : en \in WaEntries }
        \cup { Payload("instagram", en) : en \in IgEntries }
        \cup { Payload("whatsapp_business_account", <<MessagingEntry(<<E1>>)>>),
               Payload("unknown_type", <<MessagingEntry(<<E1>>)>>),
               Payload("unknown_type",
                       <<ChangesEntry(<<Change(WaValue(NamedContact, <<M1>>))>>)>>),
               [object |-> "unknown_type"],
               [object |-> "instagram"],
               [entry |-> <<MessagingEntry(<<E1>>)>>] }

\* a raw request body: JSON text of a payload, or bytes that are no JSON
JsonBody(data) == [json |-> TRUE, data |-> data]

NotJson == [json |-> FALSE]

RawBodies == {JsonBody(d) : d \in Payloads} \cup {NotJson}

-----------------------------------------------------------------------------
(* X-Hub-Signature-256 *)

\* "sha256=" + hmac.new(key, msg, sha256).hexdigest(): a value that is
\* determined by, and determines, the key and the exact bytes signed
hmac_sha256_header(key, msg) ==
    [kind |-> "hex", prefix |-> "sha256=", key |-> key, msg |-> msg]

NoSignature == [kind |-> "absent"]

\* a header value holding a character outside ASCII
NonAsciiSignature == [kind |-> "nonascii"]

\* the header values a sender may attach to the body raw
Signatures(raw) ==
    { NoSignature, NonAsciiSignature,
      hmac_sha256_header("app_secret", raw),
      hmac_sha256_header("attacker_key", raw),
      hmac_sha256_header("app_secret", NotJson) }

\* hmac.compare_digest(a, b) on two str raises TypeError unless both are ASCII
compare_digest_raises(a, b) == a.kind = "nonascii" \/ b.kind = "nonascii"

compare_digest(a, b) == a = b

\* the signature check of whatsapp_webhook: "pass", "403" or "raise"
check_signature(e, sig, raw) ==
    LET app_secret == getenv(e, "META_APP_SECRET") IN
    IF Truthy(app_secret)
    THEN IF sig.kind = "absent"
         THEN "403"
         ELSE LET expected_hash == hmac_sha256_header(app_secret, raw) IN
              IF compare_digest_raises(sig, expected_hash)
              THEN "raise"
              ELSE IF ~compare_digest(sig, expected_hash) THEN "403" ELSE "pass"
    ELSE "pass"

-----------------------------------------------------------------------------
(* Walking a payload: a handler's loop is a sequence of steps, each an     *)
(* insert into messages_store or a raised exception that ends the loop     *)

InsertStep(rec) == [op |-> "insert", rec |-> rec]

RaiseStep == [op |-> "raise"]

RECURSIVE Concat(_)
Concat(ss) == IF ss = <<>> THEN <<>> ELSE Head(ss) \o Concat(Tail(ss))

\* the records inserted before the first raise
RECURSIVE InsertsOf(_)
InsertsOf(steps) ==
    IF steps = <<>> \/ Head(steps).op = "raise"
    THEN <<>>
    ELSE <<Head(steps).rec>> \o InsertsOf(Tail(steps))

RaisesIn(steps) == \E i \in 1..Len(steps) : steps[i].op = "raise"

\* process_instagram_event(msg)
process_instagram_event(msg) ==
    LET sender_id == Get(Get(msg, "sender", EmptyDict), "id", None) IN
    IF Has(msg, "message")
    THEN LET message_obj == msg.message
             text == Get(message_obj, "text", "")
             mid == Get(message_obj, "mid", None)
         IN IF ~Truthy(text)
            THEN <<>>
            ELSE << InsertStep(
                      [id |-> mid, platform |-> "instagram",
                       sender |-> "Instagram User", from |-> sender_id,
                       text |-> text, time |-> "Just now", avatar |-> "",
                       unread |-> TRUE]) >>
    ELSE <<>>

\* process_instagram_message_value(msg)
process_instagram_message_value(msg) == process_instagram_event(msg)

\* for msg in entry['messaging']: process_instagram_event(msg)
MessagingSteps(entry) ==
    Concat([i \in 1..Len(entry.messaging) |->
                process_instagram_event(entry.messaging[i])])

\* the record whatsapp_webhook builds for one message of value['messages']
whatsapp_record(value, msg) ==
    LET from_number == Get(msg, "from", None)
        msg_body == Get(Get(msg, "text", EmptyDict), "body", "")
        contact == IF Has(value, "contacts") THEN value.contacts[1] ELSE EmptyDict
    IN [id |-> Get(msg, "id", None), platform |-> "whatsapp",
        sender |-> Get(Get(contact, "profile", EmptyDict), "name", from_number),
        from |-> from_number, text |-> msg_body, time |-> "Just now",
        avatar |-> "", unread |-> TRUE]

\* value.get('contacts', [{}])[0] raises IndexError on an empty list
whatsapp_change_steps(change) ==
    LET value == Get(change, "value", EmptyDict) IN
    IF Has(value, "messages")
    THEN [i \in 1..Len(value.messages) |->
            IF Has(value, "contacts") /\ value.contacts = <<>>
            THEN RaiseStep
            ELSE InsertStep(whatsapp_record(value, value.messages[i]))]
    ELSE <<>>

whatsapp_entry_steps(entry) ==
    LET changes == Get(entry, "changes", <<>>) IN
    Concat([i \in 1..Len(changes) |-> whatsapp_change_steps(changes[i])])

\* what a handler answers once its loop has run: the inserts made stay
Walked(steps, okStatus, okBody) ==
    IF RaisesIn(steps)
    THEN Out(500, "Internal Server Error", InsertsOf(steps), <<>>)
    ELSE Out(okStatus, okBody, InsertsOf(steps), <<>>)

-----------------------------------------------------------------------------
(* POST /api/whatsapp/webhook *)

whatsapp_dispatch(data) ==
    LET obj_type == Get(data, "object", None)
        entries == Get(data, "entry", <<>>)
    IN CASE obj_type = "instagram" ->
              Walked(Concat([i \in 1..Len(entries) |->
                                IF Has(entries[i], "messaging")
                                THEN MessagingSteps(entries[i]) ELSE <<>>]),
                     200, "EVENT_RECEIVED")
         [] obj_type = "whatsapp_business_account" ->
              Walked(Concat([i \in 1..Len(entries) |->
                                whatsapp_entry_steps(entries[i])]),
                     200, "EVENT_RECEIVED")
         [] OTHER -> Out(404, "Not Found", <<>>, <<>>)

whatsapp_webhook_post(e, req) ==
    LET checked == check_signature(e, req.signature, req.raw) IN
    CASE checked = "403" ->
            Out(403, IF req.signature.kind = "absent"
                     THEN "Signature Missing" ELSE "Forbidden", <<>>, <<>>)
      [] checked = "raise" -> Out(500, "Internal Server Error", <<>>, <<>>)
      [] ~req.raw.json -> Out(500, "Internal Server Error", <<>>, <<>>)
      [] OTHER -> whatsapp_dispatch(req.raw.data)

WebhookPosts ==
    UNION {{[signature |-> s, raw |-> r] : s \in Signatures(r)} : r \in RawBodies}

-----------------------------------------------------------------------------
(* POST /api/instagram/webhook *)

instagram_entry_steps(entry) ==
    IF Has(entry, "messaging")
    THEN MessagingSteps(entry)
    ELSE IF Has(entry, "changes")
         THEN Concat([i \in 1..Len(entry.changes) |->
                 LET val == Get(entry.changes[i], "value", EmptyDict) IN
                 IF Has(val, "messages")
                 THEN Concat([j \in 1..Len(val.messages) |->
                                 process_instagram_message_value(val.messages[j])])
                 ELSE <<>>])
         ELSE <<>>

instagram_webhook(e, req) ==
    IF ~req.raw.json
    THEN Out(500, "Internal Server Error", <<>>, <<>>)
    ELSE LET entries == Get(req.raw.data, "entry", <<>>) IN
         Walked(Concat([i \in 1..Len(entries) |-> instagram_entry_steps(entries[i])]),
                200, "EVENT_RECEIVED")

InstagramPosts == {[raw |-> r] : r \in RawBodies}

-----------------------------------------------------------------------------
(* POST /api/whatsapp/send and POST /api/instagram/send *)

\* int(datetime.now().timestamp()) at the moment a send is stored
Timestamps == {"1700000000"}

SendOutcomes == {Answered(200, TRUE), Answered(401, TRUE), Raised}

Call(api, detail) == [api |-> api, detail |-> detail]

WhatsAppSendBodies ==
    { JsonBody(EmptyDict),
      JsonBody([text |-> "hello"]),
      JsonBody([to |-> "+15551234567"]),
      JsonBody([to |-> "+15551234567", text |-> "hello"]),
      JsonBody([to |-> "+15551234567", template |-> "hello_world"]),
      JsonBody([to |-> "+15551234567", templateName |-> "hello_world"]),
      JsonBody([to |-> "+15551234567", text |-> "hello",
                template |-> "hello_world"]),
      NotJson }

\* data.get('template') or data.get('templateName')
template_of(data) ==
    IF Truthy(Get(data, "template", None))
    THEN data.template
    ELSE Get(data, "templateName", None)

sent_whatsapp_record(to_number, message_text, t) ==
    [id |-> "sent_" \o t, platform |-> "whatsapp", sender |-> "me",
     to |-> to_number, text |-> message_text, time |-> "Just now",
     avatar |-> "", unread |-> FALSE]

\* the tail of both send handlers: store in history, answer the record
StoreAndAnswerGated(new_msg, calls, remote) ==
    IF calls # <<>> /\ remote.code # 200
    THEN Out(remote.code, [error |-> "send failed"], <<>>, calls)
    ELSE Out(200, new_msg, <<new_msg>>, calls)

StoreAndAnswer(new_msg, calls, remote) == Out(200, new_msg, <<new_msg>>, calls)

send_whatsapp_message(e, req, remote, t) ==
    IF ~req.json
    THEN Out(500, [error |-> "exception"], <<>>, <<>>)
    ELSE
    LET data == req.data
        to_number == Get(data, "to", None)
        message_text == Get(data, "text", None)
        token == getenv(e, "VITE_WHATSAPP_ACCESS_TOKEN")
        phone_id == getenv(e, "VITE_WHATSAPP_PHONE_ID")
        template_name == template_of(data)
    IN
    IF ~Truthy(to_number)
    THEN Out(400, [error |-> "Missing to number"], <<>>, <<>>)
    ELSE IF ~Truthy(token) \/ ~Truthy(phone_id)
    THEN \* simulated send: the request body's text is stored as it came
         StoreAndAnswer(sent_whatsapp_record(to_number, message_text, t),
                        <<>>, remote)
    ELSE IF ~Truthy(template_name) /\ ~Truthy(message_text)
    THEN Out(400, [error |-> "Missing text or template"], <<>>, <<>>)
    ELSE
    LET call == Call("whatsapp_messages",
                     IF Truthy(template_name) THEN "template" ELSE "text")
        stored_text == IF Truthy(template_name)
                       THEN "[Template: " \o template_name \o "]"
                       ELSE message_text
    IN IF remote.kind = "raise"
       THEN Out(500, [error |-> "exception"], <<>>, <<call>>)
       ELSE StoreAndAnswer(sent_whatsapp_record(to_number, stored_text, t),
                           <<call>>, remote)

InstagramSendBodies ==
    { JsonBody(EmptyDict),
      JsonBody([text |-> "hello"]),
      JsonBody([to |-> "ig_42"]),
      JsonBody([to |-> "ig_42", text |-> ""]),
      JsonBody([to |-> "ig_42", text |-> "hello"]),
      NotJson }

sent_instagram_record(to_id, message_text, t) ==
    [id |-> "sent_ig_" \o t, platform |-> "instagram", sender |-> "me",
     to |-> to_id, text |-> message_text, time |-> "Just now",
     avatar |-> "", unread |-> FALSE]

send_instagram_message(e, req, remote, t) ==
    IF ~req.json
    THEN Out(500, [error |-> "exception"], <<>>, <<>>)
    ELSE
    LET data == req.data
        to_id == Get(data, "to", None)
        message_text == Get(data, "text", None)
        token == getenv(e, "VITE_INSTAGRAM_ACCESS_TOKEN")
        ig_account_id == getenv(e, "VITE_INSTAGRAM_ACCOUNT_ID")
    IN
    IF ~Truthy(to_id) \/ ~Truthy(message_text)
    THEN Out(400, [error |-> "Missing to or text"], <<>>, <<>>)
    ELSE IF ~Truthy(token) \/ ~Truthy(ig_account_id)
    THEN StoreAndAnswer(sent_instagram_record(to_id, message_text, t),
                        <<>>, remote)
    ELSE IF remote.kind = "raise"
    THEN Out(500, [error |-> "exception"], <<>>, <<Call("instagram_messages", "text")>>)
    ELSE StoreAndAnswer(sent_instagram_record(to_id, message_text, t),
                        <<Call("instagram_messages", "text")>>, remote)

-----------------------------------------------------------------------------
(* POST /api/vapi/initiate-call and GET /api/vapi/calls *)

InitiateCallBodies ==
    { JsonBody(EmptyDict),
      JsonBody([name |-> "Alice"]),
      JsonBody([phoneNumber |-> ""]),
      JsonBody([phoneNumber |-> "+15551234567"]),
      JsonBody([phoneNumber |-> "+15551234567", name |-> "Alice",
                variables |-> [lead |-> "web"]]),
      NotJson }

\* the three values initiate_call requires
vapi_configured_key_only(e) == Truthy(getenv(e, "VAPI_API_KEY"))

vapi_configured(e) ==
    LET api_key == getenv(e, "VAPI_API_KEY")
        assistant_id == getenv(e, "VAPI_ASSISTANT_ID")
        phone_number_id == getenv(e, "VAPI_PHONE_NUMBER")
    IN ~(~Truthy(api_key) \/ ~Truthy(assistant_id) \/ ~Truthy(phone_number_id))

initiate_call(e, req, remote) ==
    IF ~req.json
    THEN Out(500, [error |-> "exception"], <<>>, <<>>)
    ELSE
    LET data == req.data
        phone_number == Get(data, "phoneNumber", None)
        call == Call("vapi_call_phone",
                     IF Has(data, "variables") THEN "variables" ELSE "defaults")
    IN
    IF ~Truthy(phone_number)
    THEN Out(400, [error |-> "Phone number is required"], <<>>, <<>>)
    ELSE IF ~vapi_configured(e)
    THEN Out(500, [error |-> "Server misconfiguration: Missing Vapi env vars"],
             <<>>, <<>>)
    ELSE IF remote.kind = "raise"
    THEN Out(500, [error |-> "exception"], <<>>, <<call>>)
    ELSE IF remote.code = 201 \/ remote.code = 200
    THEN IF remote.json
         THEN Out(200, [passthrough |-> "vapi"], <<>>, <<call>>)
         ELSE Out(500, [error |-> "exception"], <<>>, <<call>>)
    ELSE Out(remote.code, [error |-> "Vapi Error"], <<>>, <<call>>)

get_vapi_calls(e, remote) ==
    LET api_key == getenv(e, "VAPI_API_KEY")
        call == Call("vapi_call_list", "limit")
    IN
    IF ~Truthy(api_key)
    THEN Out(500, [error |-> "Server misconfiguration: Missing VAPI_API_KEY"],
             <<>>, <<>>)
    ELSE IF remote.kind = "raise"
    THEN Out(500, [error |-> "exception"], <<>>, <<call>>)
    ELSE IF remote.code = 200
    THEN IF remote.json
         THEN Out(200, [passthrough |-> "vapi"], <<>>, <<call>>)
         ELSE Out(500, [error |-> "exception"], <<>>, <<call>>)
    ELSE Out(remote.code, [error |-> "Vapi Error"], <<>>, <<call>>)

-----------------------------------------------------------------------------
(* GET /api/meta/campaigns *)

\* the campaigns answer, then the answer to the one campaign's insights call
CampaignOutcomes ==
    { <<Answered(200, TRUE), Answered(200, TRUE)>>,
      <<Answered(200, TRUE), Answered(400, FALSE)>>,
      <<Answered(200, TRUE), Raised>>,
      <<Answered(200, FALSE), Raised>>,
      <<Answered(400, TRUE), Raised>>,
      <<Answered(401, FALSE), Raised>>,
      <<Raised, Raised>> }

get_meta_campaigns(e, remotes) ==
    LET access_token == getenv(e, "VITE_META_ACCESS_TOKEN")
        ad_account_id == getenv(e, "VITE_META_AD_ACCOUNT_ID")
        list == Call("meta_campaigns", "list")
        insights == Call("meta_campaigns", "insights")
    IN
    IF ~Truthy(access_token) \/ ~Truthy(ad_account_id)
    THEN Out(200, [error |-> "Missing backend credentials"], <<>>, <<>>)
    ELSE IF remotes[1].kind = "raise" \/ ~remotes[1].json
    THEN Out(500, [error |-> "exception"], <<>>, <<list>>)
    ELSE IF remotes[1].code # 200
    THEN Out(remotes[1].code, [error |-> "Meta API Error"], <<>>, <<list>>)
    ELSE IF remotes[2].kind = "raise" \/ ~remotes[2].json
    THEN Out(500, [error |-> "exception"], <<>>, <<list, insights>>)
    ELSE Out(200, [passthrough |-> "meta"], <<>>, <<list, insights>>)

-----------------------------------------------------------------------------
(* GET /api/leads, /api/followups, /api/appointments, /api/messages, /health *)

GoogleOutcomes == {"rows", "empty", "raise"}

google_read(api, outcome) ==
    IF outcome = "raise"
    THEN Out(500, [error |-> "exception"], <<>>, <<Call(api, "read")>>)
    ELSE Out(200, [passthrough |-> api], <<>>, <<Call(api, "read")>>)

get_leads(outcome) == google_read("sheets", outcome)

get_followups(outcome) == google_read("sheets", outcome)

get_appointments(outcome) == google_read("calendar", outcome)

\* jsonify(messages_store): the whole list, in list order
get_messages_unread_only(store) ==
    Out(200, SelectSeq(store, LAMBDA m : m.unread), <<>>, <<>>)

get_messages(store) == Out(200, store, <<>>, <<>>)

health == Out(200, [status |-> "ok"], <<>>, <<>>)

-----------------------------------------------------------------------------
(* POST /vapi/tool/schedule-appointment *)

CLINIC_TZ == "America/New_York"

\* a datetime: wall-clock minutes since 2024-01-01T00:00 and its tzinfo
\* (None for a naive value, a zone name, or a fixed offset in minutes)
DateTime(wall, tz) == [wall |-> wall, tz |-> tz]

Naive == [kind |-> "naive", off |-> 0]

Fixed(minutes) == [kind |-> "fixed", off |-> minutes]

ZoneInfo(key) == [kind |-> key, off |-> 0]

\* datetime.fromisoformat on the time strings of the model
fromisoformat(s) ==
    CASE s = "2024-05-01T14:00:00" ->
            [ok |-> TRUE, value |-> DateTime(121 * 1440 + 14 * 60, Naive)]
      [] s = "2024-12-01T23:30:00" ->
            [ok |-> TRUE, value |-> DateTime(335 * 1440 + 23 * 60 + 30, Naive)]
      [] s = "2024-11-03T01:30:00" ->
            [ok |-> TRUE, value |-> DateTime(307 * 1440 + 90, Naive)]
      [] s = "2024-05-01T14:00:00+02:00" ->
            [ok |-> TRUE, value |-> DateTime(121 * 1440 + 14 * 60, Fixed(120))]
      [] OTHER -> [ok |-> FALSE]

\* the offset from UTC of America/New_York at a wall-clock time of 2024:
\* daylight time for wall-clock times from 10 March 03:00 up to 3 November
\* 02:00 (fold 0: the skipped hour reads as standard time, the repeated
\* hour as daylight time)
new_york_utcoffset(wall) ==
    IF wall >= 69 * 1440 + 3 * 60 /\ wall < 307 * 1440 + 2 * 60
    THEN 0 - 240
    ELSE 0 - 300

utcoffset(dt) ==
    IF dt.tz.kind = CLINIC_TZ THEN new_york_utcoffset(dt.wall) ELSE dt.tz.off

\* dt + timedelta(hours=n): wall-clock arithmetic, tzinfo kept
plus_hours(dt, n) == [dt EXCEPT !.wall = dt.wall + 60 * n]

\* dt.isoformat(): the wall-clock time with the offset, if any
isoformat(dt) ==
    [wall |-> dt.wall, aware |-> dt.tz.kind # "naive", offset |-> utcoffset(dt)]

\* str(x) inside an f-string
Str(x) == IF x = None THEN "None" ELSE x

ArgsDict(d) == [kind |-> "dict", parses |-> TRUE, value |-> d]

ArgsStr(d) == [kind |-> "str", parses |-> TRUE, value |-> d]

ArgsBadStr == [kind |-> "str", parses |-> FALSE]

ToolCall(id, name, arguments) ==
    [id |-> id, type |-> "function",
     function |-> [name |-> name, arguments |-> arguments]]

Booking(time) == [name |-> "Alice", day |-> "2024-05-01", time |-> time]

TcOk == ToolCall("call_1", "schedule_dental_appointment",
                 ArgsDict(Booking("2024-05-01T14:00:00")))

TcLate == ToolCall("call_2", "schedule_dental_appointment",
                   ArgsStr([name |-> "Bob", day |-> "2024-12-01",
                            time |-> "2024-12-01T23:30:00"]))

TcFallBack == ToolCall("call_9", "schedule_dental_appointment",
                       ArgsDict([name |-> "Carol", day |-> "2024-11-03",
                                 time |-> "2024-11-03T01:30:00"]))

TcAware == ToolCall("call_3", "schedule_dental_appointment",
                    ArgsDict(Booking("2024-05-01T14:00:00+02:00")))

TcBadTime == ToolCall("call_4", "schedule_dental_appointment",
                      ArgsDict(Booking("tomorrow 3pm")))

TcNoTime == ToolCall("call_5", "schedule_dental_appointment",
                     ArgsDict([name |-> "Alice", day |-> "2024-05-01"]))

TcNoDay == ToolCall("call_6", "schedule_dental_appointment",
                    ArgsDict([name |-> "Alice", time |-> "2024-05-01T14:00:00"]))

TcBadArgs == ToolCall("call_7", "schedule_dental_appointment", ArgsBadStr)

TcOther == ToolCall("call_8", "cancel_appointment", ArgsDict([name |-> "Alice"]))

TcNoId == [type |-> "function",
           function |-> [name |-> "schedule_dental_appointment",
                         arguments |-> ArgsDict(Booking("2024-05-01T14:00:00"))]]

ToolCallLists ==
    { <<>>, <<TcOk>>, <<TcLate>>, <<TcFallBack>>, <<TcAware>>, <<TcBadTime>>, <<TcNoTime>>,
      <<TcNoDay>>, <<TcBadArgs>>, <<TcOther>>, <<TcNoId>>,
      <<TcOk, TcLate>>, <<TcOk, TcNoTime>>, <<TcNoTime, TcOk>>,
      <<TcOther, TcOk>>, <<TcOk, TcBadArgs>>, <<TcBadTime, TcOther>> }

VapiBodies ==
    { JsonBody([message |-> [type |-> "tool-calls", toolCalls |-> l]])
        : l \in ToolCallLists }
        \cup { JsonBody(EmptyDict), JsonBody([message |-> [type |-> "status-update"]]),
               NotJson }

\* the calendar's answer to the calls of one request
CalendarOutcomes == {"created", "insert_raises", "service_raises"}

ToolResult(call_id, result_content) ==
    [toolCallId |-> call_id, result |-> result_content]

\* the event written for a booking
calendar_event(name, time_iso) ==
    LET parsed == fromisoformat(time_iso).value
        start_time == IF parsed.tz.kind = "naive"
                      THEN [parsed EXCEPT !.tz = ZoneInfo(CLINIC_TZ)]
                      ELSE parsed
        end_time == plus_hours(start_time, 1)
    IN [summary |-> "Dental Appt: " \o Str(name),
        description |-> "Booked via Vapi Voice Agent. Patient: " \o Str(name),
        start |-> [dateTime |-> isoformat(start_time),
                   timeZone |-> "America/New_York"],
        end |-> [dateTime |-> isoformat(end_time),
                 timeZone |-> "America/New_York"]]

ToolStep(raises, results, events) ==
    [raises |-> raises, results |-> results, events |-> events]

\* one iteration of the loop over tool_calls
tool_call_step(tool_call, calendar) ==
    IF ~Has(tool_call, "function") \/ ~Has(tool_call, "id")
    THEN ToolStep(TRUE, <<>>, <<>>)
    ELSE
    LET function_name == tool_call.function.name
        function_args == tool_call.function.arguments
        call_id == tool_call.id
    IN
    IF function_name # "schedule_dental_appointment"
    THEN ToolStep(FALSE, <<>>, <<>>)
    ELSE IF ~function_args.parses
    THEN ToolStep(TRUE, <<>>, <<>>)
    ELSE
    LET args == function_args.value
        name == Get(args, "name", None)
        day == Get(args, "day", None)
        time_iso == Get(args, "time", None)
    IN
    IF ~(Truthy(day) /\ Truthy(time_iso))
    THEN ToolStep(FALSE, <<ToolResult(call_id, "Error: Missing day or time.")>>, <<>>)
    ELSE IF calendar = "service_raises" \/ ~fromisoformat(time_iso).ok
    THEN ToolStep(FALSE,
                  <<ToolResult(call_id, "Failed to book calendar event: error")>>,
                  <<>>)
    ELSE IF calendar = "insert_raises"
    THEN ToolStep(FALSE,
                  <<ToolResult(call_id, "Failed to book calendar event: error")>>,
                  <<>>)
    ELSE ToolStep(FALSE,
                  <<ToolResult(call_id,
                      "Success! Appointment booked for " \o day \o " at "
                          \o time_iso \o ". Event ID: evt_" \o call_id)>>,
                  <<calendar_event(name, time_iso)>>)

\* the loop: results and events accumulate until an iteration raises
RECURSIVE tool_call_loop(_, _)
tool_call_loop(tool_calls, calendar) ==
    IF tool_calls = <<>>
    THEN ToolStep(FALSE, <<>>, <<>>)
    ELSE LET first == tool_call_step(Head(tool_calls), calendar) IN
         IF first.raises
         THEN first
         ELSE LET rest == tool_call_loop(Tail(tool_calls), calendar) IN
              ToolStep(rest.raises, first.results \o rest.results,
                       first.events \o rest.events)

vapi_webhook(req, calendar) ==
    IF ~req.json
    THEN Out(500, [error |-> "exception"], <<>>, <<>>)
    ELSE IF Has(req.data, "message") /\ Has(req.data.message, "toolCalls")
    THEN LET ran == tool_call_loop(req.data.message.toolCalls, calendar) IN
         IF ran.raises
         THEN [Out(500, [error |-> "exception"], <<>>, <<>>)
                 EXCEPT !.events = ran.events]
         ELSE [Out(200, [results |-> ran.results], <<>>, <<>>)
                 EXCEPT !.events = ran.events]
    ELSE Out(200, [status |-> "ignored"], <<>>, <<>>)

-----------------------------------------------------------------------------
(* The server: requests handled one at a time, each answered before the   *)
(* next is taken                                                           *)

NoRequest ==
    [route |-> "startup", req |-> EmptyDict, remote |-> None,
     out |-> Out(200, None, <<>>, <<>>), pre |-> <<>>]

Init ==
    /\ env \in EnvSet
    /\ \E t \in StartupTimes : messages_store = InitialStore(t)
    /\ last = NoRequest
    /\ inflight = <<>>

\* one request, start to response: the handler's inserts reach the store in
\* order, and the request and what it was answered are remembered
Handle(route, req, remote, out) ==
    /\ last.route = "startup"
    /\ Len(messages_store) + Len(out.inserts) <= MaxStore
    /\ messages_store' = InsertAll(messages_store, out.inserts)
    /\ last' = [route |-> route, req |-> req, remote |-> remote, out |-> out,
                pre |-> messages_store]
    /\ UNCHANGED <<env, inflight>>

WhatsAppVerify ==
    \E args \in VerifyArgs :
        Handle("GET /api/whatsapp/webhook", args, None,
               whatsapp_webhook_get(env, args))

InstagramVerify ==
    \E args \in VerifyArgs :
        Handle("GET /api/instagram/webhook", args, None,
               verify_instagram_webhook(env, args))

WhatsAppDeliver ==
    \E req \in WebhookPosts :
        Handle("POST /api/whatsapp/webhook", req, None,
               whatsapp_webhook_post(env, req))

InstagramDeliver ==
    \E req \in InstagramPosts :
        Handle("POST /api/instagram/webhook", req, None,
               instagram_webhook(env, req))

WhatsAppSend ==
    \E req \in WhatsAppSendBodies, remote \in SendOutcomes, t \in Timestamps :
        Handle("POST /api/whatsapp/send", req, remote,
               send_whatsapp_message(env, req, remote, t))

InstagramSend ==
    \E req \in InstagramSendBodies, remote \in SendOutcomes, t \in Timestamps :
        Handle("POST /api/instagram/send", req, remote,
               send_instagram_message(env, req, remote, t))

InitiateCall ==
    \E req \in InitiateCallBodies, remote \in ProviderOutcomes :
        Handle("POST /api/vapi/initiate-call", req, remote,
               initiate_call(env, req, remote))

GetVapiCalls ==
    \E remote \in ProviderOutcomes :
        Handle("GET /api/vapi/calls", EmptyDict, remote,
               get_vapi_calls(env, remote))

GetLeads ==
    \E outcome \in GoogleOutcomes :
        Handle("GET /api/leads", EmptyDict, outcome, get_leads(outcome))

GetFollowups ==
    \E outcome \in GoogleOutcomes :
        Handle("GET /api/followups", EmptyDict, outcome, get_followups(outcome))

GetAppointments ==
    \E outcome \in GoogleOutcomes :
        Handle("GET /api/appointments", EmptyDict, outcome,
               get_appointments(outcome))

ScheduleAppointment ==
    \E req \in VapiBodies, calendar \in CalendarOutcomes :
        Handle("POST /vapi/tool/schedule-appointment", req, calendar,
               vapi_webhook(req, calendar))

GetMetaCampaigns ==
    \E remotes \in CampaignOutcomes :
        Handle("GET /api/meta/campaigns", EmptyDict, remotes,
               get_meta_campaigns(env, remotes))

GetMessages ==
    Handle("GET /api/messages", EmptyDict, None, get_messages(messages_store))

Health == Handle("GET /health", EmptyDict, None, health)

\* the response leaves the server
Respond ==
    /\ last.route # "startup"
    /\ last' = NoRequest
    /\ UNCHANGED <<env, messages_store, inflight>>

Next ==
    \/ Respond
    \/ WhatsAppVerify
    \/ InstagramVerify
    \/ WhatsAppDeliver
    \/ InstagramDeliver
    \/ WhatsAppSend
    \/ InstagramSend
    \/ InitiateCall
    \/ GetVapiCalls
    \/ GetLeads
    \/ GetFollowups
    \/ GetAppointments
    \/ ScheduleAppointment
    \/ GetMetaCampaigns
    \/ GetMessages
    \/ Health

Spec == Init /\ [][Next]_vars

-----------------------------------------------------------------------------
(* The threaded server: webhook deliveries and sends handled concurrently. *)
(* A handler's inserts are separate steps; between two of them any other   *)
(* worker may run.  No handler reads messages_store, so what a handler     *)
(* inserts is fixed by its request, the environment and the remote answer. *)

\* worker threads handling requests at the same time
NumWorkers == 2

Workers == 1..NumWorkers

Idle == [route |-> "idle", req |-> EmptyDict, remote |-> None, done |-> 0]

DeliverRequests ==
    { [signature |-> hmac_sha256_header("app_secret", JsonBody(d)),
       raw |-> JsonBody(d)] :
        d \in { Payload("whatsapp_business_account",
                        <<ChangesEntry(<<Change(WaValue(NamedContact, <<M1, M2>>))>>)>>),
                Payload("whatsapp_business_account",
                        <<ChangesEntry(<<Change(WaValue(NamedContact, <<M1>>)),
                                         Change(WaValue(<<>>, <<M2>>))>>)>>),
                Payload("instagram", <<MessagingEntry(<<E1>>)>>) } }

\* the requests workers take: deliveries to either webhook and sends
WriteRequests ==
    { [route |-> "POST /api/whatsapp/webhook", req |-> r, remote |-> Raised,
       done |-> 0] : r \in DeliverRequests }
    \cup { [route |-> "POST /api/instagram/webhook", req |-> [raw |-> r.raw],
            remote |-> Raised, done |-> 0] :
              r \in { q \in DeliverRequests : q.raw.data.object = "instagram" } }
    \cup { [route |-> "POST /api/whatsapp/send",
            req |-> JsonBody([to |-> "+15551234567", text |-> "hello"]),
            remote |-> o, done |-> 0] : o \in {Answered(200, TRUE), Raised} }
    \cup { [route |-> "POST /api/instagram/send",
            req |-> JsonBody([to |-> "ig_42", text |-> "hello"]),
            remote |-> Answered(401, TRUE), done |-> 0] }

\* the handler of a write request
RunWrite(e, w) ==
    CASE w.route = "POST /api/whatsapp/webhook" -> whatsapp_webhook_post(e, w.req)
      [] w.route = "POST /api/instagram/webhook" -> instagram_webhook(e, w.req)
      [] w.route = "POST /api/whatsapp/send" ->
            send_whatsapp_message(e, w.req, w.remote, CHOOSE t \in Timestamps : TRUE)
      [] w.route = "POST /api/instagram/send" ->
            send_instagram_message(e, w.req, w.remote, CHOOSE t \in Timestamps : TRUE)

InitC ==
    /\ env \in {FullEnv, EmptyEnv}
    /\ \E t \in StartupTimes : messages_store = InitialStore(t)
    /\ last = NoRequest
    /\ inflight = [p \in Workers |-> Idle]

\* worker p takes a request
Accept(p) ==
    /\ inflight[p].route = "idle"
    /\ \E w \in WriteRequests : inflight' = [inflight EXCEPT ![p] = w]
    /\ UNCHANGED <<env, messages_store, last>>

\* worker p reaches its next messages_store.insert(0, new_msg)
InsertNext(p) ==
    /\ inflight[p].route # "idle"
    /\ LET w == inflight[p]
           out == RunWrite(env, w)
       IN /\ w.done < Len(out.inserts)
          /\ Len(messages_store) < MaxStore
          /\ messages_store' = Insert0(messages_store, out.inserts[w.done + 1])
          /\ inflight' = [inflight EXCEPT ![p].done = w.done + 1]
          /\ last' = [route |-> w.route, req |-> w.req, remote |-> w.remote,
                      out |-> [out EXCEPT !.inserts = <<out.inserts[w.done + 1]>>],
                      pre |-> messages_store]
    /\ UNCHANGED env

\* worker p has made all its inserts and answers
Finish(p) ==
    /\ inflight[p].route # "idle"
    /\ inflight[p].done = Len(RunWrite(env, inflight[p]).inserts)
    /\ inflight' = [inflight EXCEPT ![p] = Idle]
    /\ UNCHANGED <<env, messages_store, last>>

NextC == \E p \in Workers : Accept(p) \/ InsertNext(p) \/ Finish(p)

SpecC == InitC /\ [][NextC]_vars

-----------------------------------------------------------------------------
(* Properties *)

HandshakeRoutes == {"GET /api/whatsapp/webhook", "GET /api/instagram/webhook"}

DeliverRoutes == {"POST /api/whatsapp/webhook", "POST /api/instagram/webhook"}

SendRoutes == {"POST /api/whatsapp/send", "POST /api/instagram/send"}

\* the verify token the answered handshake was checked against
VerifyTokenOf(route) ==
    IF route = "GET /api/whatsapp/webhook"
    THEN whatsapp_verify_token(env)
    ELSE instagram_verify_token(env)

\* the answered request left messages_store as it found it
StoreUntouched == messages_store = last.pre

\* C1: every verify handshake on either webhook is answered 200 with the
\* challenge as body when mode is "subscribe" and the token is the
\* configured one, 403 when mode and token are present and the token is
\* wrong, 400 when mode or token is missing; no handshake changes the
\* message history.
C1_Handshake ==
    last.route \in HandshakeRoutes =>
        LET args == last.req
            verify_token == VerifyTokenOf(last.route)
        IN /\ (args.mode = "subscribe" /\ args.token = verify_token)
                => (last.out.status = 200 /\ last.out.body = args.challenge)
           /\ (Truthy(args.mode) /\ Truthy(args.token) /\ args.token # verify_token)
                => last.out.status = 403
           /\ (~Truthy(args.mode) \/ ~Truthy(args.token))
                => last.out.status = 400
           /\ StoreUntouched

\* C2: with a signing secret configured, every POST to the WhatsApp webhook
\* whose signature header is missing or differs from "sha256=" + the hex
\* HMAC-SHA256 of the raw body under the secret is answered 403 and leaves
\* the message history as it was, whatever the payload.
C2_BadSignatureRejected ==
    (/\ last.route = "POST /api/whatsapp/webhook"
     /\ Truthy(getenv(env, "META_APP_SECRET"))
     /\ last.req.signature #
            hmac_sha256_header(getenv(env, "META_APP_SECRET"), last.req.raw))
        => (last.out.status = 403 /\ StoreUntouched)

\* C3: under any interleaving of concurrent deliveries and sends, every
\* insertion puts the inserted record at the head of the history and leaves
\* the records already stored behind it, in the order they had.
C3_PrependOnly ==
    [][messages_store' # messages_store =>
          /\ Len(messages_store') = Len(messages_store) + 1
          /\ messages_store'[1] = last'.out.inserts[1]
          /\ SubSeq(messages_store', 2, Len(messages_store')) = messages_store]_vars

\* two workers' inserts interleaved: one worker's record went in between the
\* two records of another worker's delivery, which is still under way
C3_Interleaved ==
    \E p, q \in Workers :
        /\ p # q
        /\ inflight[p].route = "POST /api/whatsapp/webhook"
        /\ inflight[p].done = 1
        /\ Len(RunWrite(env, inflight[p]).inserts) = 2
        /\ inflight[q].route \in SendRoutes
        /\ inflight[q].done = 1
        /\ Len(messages_store) >= 4
        /\ messages_store[1].sender = "me"
        /\ messages_store[2] = RunWrite(env, inflight[p]).inserts[1]

\* the delivered body is JSON that passed the signature check
Dispatched ==
    /\ last.route \in DeliverRoutes
    /\ last.req.raw.json
    /\ last.route = "POST /api/whatsapp/webhook"
        => check_signature(env, last.req.signature, last.req.raw) = "pass"

\* C4: a delivery to either webhook whose top-level object type is neither
\* "whatsapp_business_account" nor "instagram" is answered 404 and leaves
\* the message history unchanged.
C4_UnknownObject404 ==
    (/\ Dispatched
     /\ Get(last.req.raw.data, "object", None)
            \notin {"whatsapp_business_account", "instagram"})
        => (last.out.status = 404 /\ StoreUntouched)

\* the credentials a send route needs are all set
SendConfigured(route) ==
    IF route = "POST /api/whatsapp/send"
    THEN /\ Truthy(getenv(env, "VITE_WHATSAPP_ACCESS_TOKEN"))
         /\ Truthy(getenv(env, "VITE_WHATSAPP_PHONE_ID"))
    ELSE /\ Truthy(getenv(env, "VITE_INSTAGRAM_ACCESS_TOKEN"))
         /\ Truthy(getenv(env, "VITE_INSTAGRAM_ACCOUNT_ID"))

\* the answered send carried the fields its route asks for
ValidSend ==
    /\ last.route \in SendRoutes
    /\ last.req.json
    /\ Truthy(Get(last.req.data, "to", None))
    /\ IF last.route = "POST /api/whatsapp/send"
       THEN Truthy(Get(last.req.data, "text", None))
                \/ Truthy(template_of(last.req.data))
       ELSE Truthy(Get(last.req.data, "text", None))

\* the answered send stored exactly one record, tagged sender "me"
StoredOneFromMe ==
    /\ Len(last.out.inserts) = 1
    /\ last.out.inserts[1].sender = "me"
    /\ messages_store = <<last.out.inserts[1]>> \o last.pre

\* C5 as stated: every send that passes input validation appends exactly one
\* record with sender "me", whether the provider answers success, answers a
\* non-success status, or the remote call fails with a network error.
C5_EverySendStored == ValidSend => StoredOneFromMe

\* C5, amended: a valid send appends exactly one record with sender "me" and
\* is answered 200 whenever no remote call is made (credentials missing) or
\* the provider answers, with whatever status; when the remote call raises a
\* network error the send is answered 500 and nothing is appended.
C5_SendStoredUnlessRaised ==
    ValidSend =>
        IF SendConfigured(last.route) /\ last.remote.kind = "raise"
        THEN last.out.status = 500 /\ StoreUntouched
        ELSE last.out.status = 200 /\ StoredOneFromMe

\* a send the provider refused is in the history all the same
C5_RefusedSendStored ==
    /\ ValidSend
    /\ SendConfigured(last.route)
    /\ last.out.calls # <<>>
    /\ last.remote.kind = "status"
    /\ last.remote.code = 401
    /\ messages_store[1].sender = "me"
    /\ Len(messages_store) = Len(last.pre) + 1

\* C6: every WhatsApp send carrying `to` and a template name T, with or
\* without text, with or without credentials configured, stores and returns
\* a record whose text is "[Template: T]".
C6_TemplateText ==
    (/\ last.route = "POST /api/whatsapp/send"
     /\ last.req.json
     /\ Truthy(Get(last.req.data, "to", None))
     /\ Truthy(Get(last.req.data, "template", None))
     /\ last.out.status = 200)
        => LET expected == "[Template: " \o last.req.data.template \o "]" IN
           /\ last.out.body.text = expected
           /\ messages_store[1].text = expected

\* the tool calls of the answered schedule-appointment request
ToolCallsOf(req) == req.data.message.toolCalls

\* C7: a schedule-appointment request carrying message.toolCalls is answered
\* 200 with exactly one {toolCallId, result} per tool call, in request
\* order; a failure in one tool call (unsupported function name, unparsable
\* arguments, ...) is that call's textual result and neither fails the
\* response nor drops a result.
C7_OneResultPerToolCall ==
    (/\ last.route = "POST /vapi/tool/schedule-appointment"
     /\ last.req.json
     /\ Has(last.req.data, "message")
     /\ Has(last.req.data.message, "toolCalls")
     /\ \A i \in 1..Len(ToolCallsOf(last.req)) : Has(ToolCallsOf(last.req)[i], "id"))
        => /\ last.out.status = 200
           /\ Len(last.out.body.results) = Len(ToolCallsOf(last.req))
           /\ \A i \in 1..Len(ToolCallsOf(last.req)) :
                last.out.body.results[i].toolCallId = ToolCallsOf(last.req)[i].id

\* C8: on every route, whatever the request and the remote outcome, the
\* handler itself returns the response; no failure escapes it.
C8_NoFaultEscapes == ~last.out.fault

\* a value the answered route requires is absent
ConfigMissing ==
    CASE last.route = "POST /api/vapi/initiate-call" ->
            \E k \in {"VAPI_API_KEY", "VAPI_ASSISTANT_ID", "VAPI_PHONE_NUMBER"} :
                ~Truthy(getenv(env, k))
      [] last.route = "GET /api/vapi/calls" -> ~Truthy(getenv(env, "VAPI_API_KEY"))
      [] last.route \in SendRoutes -> ~SendConfigured(last.route)
      [] last.route = "GET /api/meta/campaigns" ->
            \/ ~Truthy(getenv(env, "VITE_META_ACCESS_TOKEN"))
            \/ ~Truthy(getenv(env, "VITE_META_AD_ACCOUNT_ID"))
      [] OTHER -> FALSE

\* the answered request carries the caller fields its route asks for
FieldsPresent ==
    CASE last.route = "POST /api/vapi/initiate-call" ->
            last.req.json /\ Truthy(Get(last.req.data, "phoneNumber", None))
      [] last.route \in SendRoutes -> ValidSend
      [] OTHER -> TRUE

\* C9 as stated: a request to a route one of whose required configuration
\* values is absent is answered 500, makes no outbound call and stores no
\* history record.
C9_MissingConfig500 ==
    (ConfigMissing /\ FieldsPresent)
        => (last.out.status = 500 /\ last.out.calls = <<>> /\ StoreUntouched)

\* C9, amended: a request to a route one of whose required configuration
\* values is absent makes no outbound call; on the voice routes it is
\* answered 500 and stores nothing, on the send routes it is answered 200
\* and stores the one record of a simulated send, on the campaigns route it
\* is answered 200 and stores nothing.
C9_MissingConfig ==
    (ConfigMissing /\ FieldsPresent)
        => /\ last.out.calls = <<>>
           /\ IF last.route \in SendRoutes
              THEN last.out.status = 200 /\ StoredOneFromMe
              ELSE IF last.route = "GET /api/meta/campaigns"
              THEN last.out.status = 200 /\ StoreUntouched
              ELSE last.out.status = 500 /\ StoreUntouched

\* initiate-call, with a phone number, refused for a missing assistant id
\* alone
C9_VoiceMisconfigured ==
    /\ last.route = "POST /api/vapi/initiate-call"
    /\ FieldsPresent
    /\ Truthy(getenv(env, "VAPI_API_KEY"))
    /\ ~Truthy(getenv(env, "VAPI_ASSISTANT_ID"))
    /\ last.out.status = 500
    /\ last.out.calls = <<>>

\* the answered request lacks a caller field its route requires
FieldMissing ==
    CASE last.route = "POST /api/vapi/initiate-call" ->
            last.req.json /\ ~Truthy(Get(last.req.data, "phoneNumber", None))
      [] last.route \in SendRoutes -> last.req.json /\ ~ValidSend
      [] OTHER -> FALSE

\* C10: in every configuration, a request lacking a required caller field
\* (initiate-call without phoneNumber, WhatsApp send without `to` or with
\* neither text nor template, Instagram send without `to` or text) is
\* answered 400, makes no outbound call and stores no history record.
C10_MissingField400 ==
    FieldMissing
        => (last.out.status = 400 /\ last.out.calls = <<>> /\ StoreUntouched)

\* C11: GET /api/messages is answered 200 with the whole history, in stored
\* order, and leaves the history as it was; two calls with no write between
\* them therefore return the same list.
C11_PureRead ==
    last.route = "GET /api/messages"
        => /\ last.out.status = 200
           /\ last.out.body = last.pre
           /\ last.out.inserts = <<>>
           /\ StoreUntouched

\* the history read back after deliveries and sends have grown it, records
\* sent by "me" included
C11_ReadAfterWrites ==
    /\ last.route = "GET /api/messages"
    /\ Len(last.pre) > 2
    /\ \E i \in 1..Len(last.pre) : last.pre[i].sender = "me"
    /\ last.out.body = messages_store

\* C12: across any sequence of requests to any routes the history never
\* gets shorter, and every record in it, the two sample records included,
\* stays in it with all its fields unchanged, behind the records stored
\* after it.
C12_RecordsKept ==
    [][LET old == Len(messages_store)
           new == Len(messages_store') IN
       /\ new >= old
       /\ \A i \in 1..old : messages_store'[new - old + i] = messages_store[i]]_vars

\* a full history: the two sample records are still its oldest two
C12_SamplesKept ==
    /\ Len(messages_store) = MaxStore
    /\ last.route \in DeliverRoutes \cup SendRoutes
    /\ Len(last.out.inserts) > 0
    /\ messages_store[MaxStore - 1].id = "init_msg_1"
    /\ messages_store[MaxStore].id = "init_msg_ig_1"

\* a tool call the handler takes as a booking: the supported function, with
\* arguments that parse
IsBooking(tc) ==
    /\ Has(tc, "function")
    /\ tc.function.name = "schedule_dental_appointment"
    /\ tc.function.arguments.parses

\* a booking that lacks its day or its time
LacksDayOrTime(tc) ==
    /\ IsBooking(tc)
    /\ ~(/\ Truthy(Get(tc.function.arguments.value, "day", None))
         /\ Truthy(Get(tc.function.arguments.value, "time", None)))

\* a booking with a day and a time that is an ISO-8601 timestamp
ValidBooking(tc) ==
    /\ IsBooking(tc)
    /\ ~LacksDayOrTime(tc)
    /\ fromisoformat(tc.function.arguments.value.time).ok

\* the time of a valid booking carries no zone offset
BareTime(tc) ==
    fromisoformat(tc.function.arguments.value.time).value.tz.kind = "naive"

\* the instant, in minutes of UTC, that a written dateTime denotes
Instant(iso) == iso.wall - iso.offset

\* C13: when the calendar accepts the events of an answered
\* schedule-appointment request, one event is written per valid booking and
\* none for any other tool call; the event of a booking whose time has no
\* zone offset starts at that wall-clock time in America/New_York, ends
\* exactly one hour after it starts and has the summary
\* "Dental Appt: {patientName}"; a booking missing day or time gets the
\* result "Error: Missing day or time.".
C13_BareTimeBooking ==
    (/\ last.route = "POST /vapi/tool/schedule-appointment"
     /\ last.req.json
     /\ Has(last.req.data, "message")
     /\ Has(last.req.data.message, "toolCalls")
     /\ last.remote = "created"
     /\ last.out.status = 200)
        => LET calls == ToolCallsOf(last.req)
               booked == SelectSeq(calls, ValidBooking)
               events == last.out.events
           IN
           /\ Len(events) = Len(booked)
           /\ \A i \in 1..Len(booked) :
                BareTime(booked[i]) =>
                    LET args == booked[i].function.arguments.value
                        start == events[i].start.dateTime
                        end == events[i].end.dateTime
                    IN
                    /\ start.aware
                    /\ start.wall = fromisoformat(args.time).value.wall
                    /\ start.offset = new_york_utcoffset(start.wall)
                    /\ Instant(end) - Instant(start) = 60
                    /\ events[i].summary = "Dental Appt: " \o args.name
           /\ \A i \in 1..Len(calls) :
                LacksDayOrTime(calls[i]) =>
                    \E j \in 1..Len(last.out.body.results) :
                        last.out.body.results[j] =
                            ToolResult(calls[i].id, "Error: Missing day or time.")

\* the messages found under entry[].changes[].value.messages[] of a
\* payload, in payload order, each with the value it came in
WaDelivered(data) ==
    LET entries == Get(data, "entry", <<>>) IN
    Concat([i \in 1..Len(entries) |->
        LET changes == Get(entries[i], "changes", <<>>) IN
        Concat([j \in 1..Len(changes) |->
            LET value == Get(changes[j], "value", EmptyDict) IN
            IF Has(value, "messages")
            THEN [k \in 1..Len(value.messages) |->
                    [value |-> value, msg |-> value.messages[k]]]
            ELSE <<>>])])

\* the first contact of the value carries a display name
HasDisplayName(value) ==
    /\ Has(value, "contacts")
    /\ Len(value.contacts) > 0
    /\ Has(value.contacts[1], "profile")
    /\ Has(value.contacts[1].profile, "name")

\* the sender name of a delivered message: the display name, else the phone
\* number
SenderName(found) ==
    IF HasDisplayName(found.value)
    THEN found.value.contacts[1].profile.name
    ELSE Get(found.msg, "from", None)

\* the body text of a delivered message, empty when it has none
BodyText(msg) == IF Has(msg, "text") THEN Get(msg.text, "body", "") ELSE ""

\* C14: an accepted WhatsApp delivery with object
\* "whatsapp_business_account" is answered 200 and adds one record per
\* message found under entry[].changes[].value.messages[]: platform
\* "whatsapp", unread, the message's id, sender number and body text, and as
\* sender name the contact's display name or, when there is none (contacts
\* absent or empty), the phone number.
C14_WhatsAppDelivery ==
    (/\ last.route = "POST /api/whatsapp/webhook"
     /\ Dispatched
     /\ Get(last.req.raw.data, "object", None) = "whatsapp_business_account")
        => LET found == WaDelivered(last.req.raw.data)
               added == last.out.inserts
           IN
           /\ last.out.status = 200
           /\ Len(added) = Len(found)
           /\ Len(messages_store) = Len(last.pre) + Len(found)
           /\ \A k \in 1..Len(found) :
                /\ k <= Len(added)
                /\ added[k].platform = "whatsapp"
                /\ added[k].unread
                /\ added[k].id = Get(found[k].msg, "id", None)
                /\ added[k].from = Get(found[k].msg, "from", None)
                /\ added[k].text = BodyText(found[k].msg)
                /\ added[k].sender = SenderName(found[k])
                /\ messages_store[Len(added) + 1 - k] = added[k]

\* the messages under changes[].value.messages[] of one entry
ChangesMessages(entry) ==
    LET changes == Get(entry, "changes", <<>>) IN
    Concat([j \in 1..Len(changes) |->
        Get(Get(changes[j], "value", EmptyDict), "messages", <<>>)])

\* the messaging events of a payload: those of each entry's messaging[]
\* array and those of its changes[].value.messages[] array
IgDelivered(data) ==
    LET entries == Get(data, "entry", <<>>) IN
    Concat([i \in 1..Len(entries) |->
        Get(entries[i], "messaging", <<>>) \o ChangesMessages(entries[i])])

\* the text body of a messaging event, empty when it has none
EventText(ev) == IF Has(ev, "message") THEN Get(ev.message, "text", "") ELSE ""

HasEventText(ev) == Truthy(EventText(ev))

\* an Instagram payload was delivered: to the Instagram webhook, or to the
\* WhatsApp webhook, which hands object "instagram" to the same processing
InstagramDelivered ==
    /\ Dispatched
    /\ Get(last.req.raw.data, "object", None) = "instagram"

\* C15: every Instagram delivery is answered 200; its messaging events are
\* those of entry[].messaging[] and of entry[].changes[].value.messages[];
\* each event with a non-empty text adds exactly one record, platform
\* "instagram" and unread, and each event without text adds none.
C15_InstagramDelivery ==
    InstagramDelivered
        => LET texts == SelectSeq(IgDelivered(last.req.raw.data), HasEventText)
               added == last.out.inserts
           IN
           /\ last.out.status = 200
           /\ Len(added) = Len(texts)
           /\ Len(messages_store) = Len(last.pre) + Len(texts)
           /\ \A k \in 1..Len(texts) :
                /\ k <= Len(added)
                /\ added[k].platform = "instagram"
                /\ added[k].unread
                /\ added[k].text = EventText(texts[k])
                /\ messages_store[Len(added) + 1 - k] = added[k]

\* C16: a request to a webhook route (handshake or delivery) or to a send
\* route that is answered with a status other than 200 leaves the history
\* exactly as it was before the request, a delivery that fails part-way
\* through a payload of several messages included.
C16_AllOrNothing ==
    (/\ last.route \in HandshakeRoutes \cup DeliverRoutes \cup SendRoutes
     /\ last.out.status # 200)
        => StoreUntouched

=============================================================================
